---- MODULE Spec2Model ----
(***************************************************************************)
(* A model of 12v/rm-ids: the postcode extractor (extract_postcodes.py)    *)
(* and the resumable postcode -> id mapper (postcode_mapper.py).           *)
(*                                                                         *)
(* Postcode strings are represented by natural numbers: the number of a    *)
(* postcode is its rank in the lexicographic order of the strings, so <    *)
(* on the numbers is the order sorted() uses.  A JSON id is a tagged text  *)
(* (an int or a str with its decimal text, or None); a cell of the CSV     *)
(* file is a plain text.  The mapping file is a header flag and a sequence *)
(* of rows; a process kill is observed at row granularity.                 *)
(***************************************************************************)
EXTENDS Integers, Sequences, FiniteSets, TLC

VARIABLES
    postcodes,      \* main: postcodes, the lines of postcodes.txt
    service,        \* the lookup service: postcode -> response (deterministic)
    file0,          \* postcode-mapping.csv as it was before the first run
    file,           \* postcode-mapping.csv on disk
    pc,             \* position of the mapper process in main()
    mapping,        \* main: mapping
    write_buffer,   \* main: write_buffer
    fetched,        \* main: fetched
    i,              \* main: number of postcodes of the list already processed
    run,            \* number of the current mapper run
    kills,          \* number of times the process was killed
    calls,          \* history: calls of fetch_postcode_id per postcode, this run
    loaded,         \* history: keys of the mapping loaded at the start of this run
    durable,        \* history: entries loaded at start or appended by a completed flush
    ckpt,           \* history: a checkpoint flush (line 143) wrote rows in this run
    prev,           \* history: how the previous run ended
    prevFile,       \* history: the file the previous run left
    lost,           \* history: resolved entries not on disk when the process was killed
    exHeader,       \* extractor: the column names of the reference CSV
    exRows,         \* extractor: the rows of the reference CSV
    exPos,          \* extractor: number of rows consumed
    exPostcodes,    \* extractor: the set postcodes
    exOut,          \* extractor: lines of postcodes.txt
    exPc,           \* extractor: position in the script
    rtPc,           \* session.get: position of one request in the retry loop
    rtTotal,        \* session.get: Retry.total, the retries still allowed
    rtAttempts,     \* history: the outcome of each attempt of the request
    rtReturn        \* fetch_postcode_id: the value returned for the request

vars == <<postcodes, service, file0, file, pc, mapping, write_buffer, fetched, i,
          run, kills, calls, loaded, durable, ckpt, prev, prevFile, lost,
          exHeader, exRows, exPos, exPostcodes, exOut, exPc,
          rtPc, rtTotal, rtAttempts, rtReturn>>

mapperVars == <<postcodes, service, file0, file, pc, mapping, write_buffer, fetched,
                i, run, kills, calls, loaded, durable, ckpt, prev, prevFile, lost>>

extractVars == <<exHeader, exRows, exPos, exPostcodes, exOut, exPc>>

retryVars == <<rtPc, rtTotal, rtAttempts, rtReturn>>

----------------------------------------------------------------------------
(* Bounds of the model *)

MaxLen == 3         \* longest short postcode list
MaxRuns == 2        \* mapper runs in succession
MaxKills == 1       \* process kills
LongLen == 101      \* length of the long postcode lists (one checkpoint interval + 1)
MaxRows == 3        \* extractor: rows of the reference CSV

(* if fetched % 100 == 0 *)
CheckpointInterval == 100

SmallPostcodes == {1, 2}

----------------------------------------------------------------------------
(* Values *)

None == [t |-> "none", s |-> ""]
IntVal(s) == [t |-> "int", s |-> s]
StrVal(s) == [t |-> "str", s |-> s]

(* "is not None" in place of the truth value *)
Truthy_notNone(v) == v.t # "none"

(* Python truth value of an id: None, 0 and "" are false *)
Truthy(v) ==
    \/ v.t = "int" /\ v.s # "0"
    \/ v.t = "str" /\ v.s # ""

(* csv.writer: a cell is str(value), None is written as the empty text *)
CsvCell(v) == IF v.t = "none" THEN "" ELSE v.s

EmptyMapping == [p \in {} |-> None]

Put(m, k, v) == [x \in DOMAIN m \cup {k} |-> IF x = k THEN v ELSE m[x]]

Range(s) == {s[k] : k \in DOMAIN s}

----------------------------------------------------------------------------
(* The mapping file *)

NoFile == [exists |-> FALSE, header |-> FALSE, rows |-> <<>>]
EmptyFile == [exists |-> TRUE, header |-> FALSE, rows |-> <<>>]
HeaderOnly == [exists |-> TRUE, header |-> TRUE, rows |-> <<>>]
FileOf(rows) == [exists |-> TRUE, header |-> TRUE, rows |-> rows]

FileEntries(f) == Range(f.rows)
FileKeys(f) == {r[1] : r \in Range(f.rows)}

----------------------------------------------------------------------------
(* Responses of the lookup service *)

Match(v) == [has_id |-> TRUE, id |-> v]
MatchNoId == [has_id |-> FALSE, id |-> None]

Fail == [status |-> "error", has_matches |-> FALSE, matches |-> <<>>]
Ok(ms) == [status |-> "ok", has_matches |-> TRUE, matches |-> ms]
OkNoMatchesKey == [status |-> "ok", has_matches |-> FALSE, matches |-> <<>>]

Responses ==
    { Fail,
      OkNoMatchesKey,
      Ok(<<>>),
      Ok(<<Match(IntVal("7"))>>),
      Ok(<<Match(StrVal("5")), Match(IntVal("7"))>>),
      Ok(<<MatchNoId, Match(IntVal("7"))>>),
      Ok(<<Match(IntVal("0")), Match(StrVal("5"))>>),
      Ok(<<Match(StrVal(""))>>) }

(* data.get("matches", []) *)
GetMatches(resp) == IF resp.has_matches THEN resp.matches ELSE <<>>

(* matches[0].get("id") *)
GetId(m) == IF m.has_id THEN m.id ELSE None

(* the except clause missing: the failure propagates *)
fetch_postcode_id_raise(resp) ==
    IF resp.status = "error"
    THEN [raised |-> TRUE, value |-> None]
    ELSE LET matches == GetMatches(resp)
         IN  IF matches # <<>>
             THEN [raised |-> FALSE, value |-> GetId(matches[1])]
             ELSE [raised |-> FALSE, value |-> None]

(* matches[-1] in place of matches[0] *)
fetch_postcode_id_last(resp) ==
    IF resp.status = "error"
    THEN [raised |-> FALSE, value |-> None]
    ELSE LET matches == GetMatches(resp)
         IN  IF matches # <<>>
             THEN [raised |-> FALSE, value |-> GetId(matches[Len(matches)])]
             ELSE [raised |-> FALSE, value |-> None]

(* fetch_postcode_id: the except clause turns a RequestException into None *)
fetch_postcode_id(resp) ==
    IF resp.status = "error"
    THEN [raised |-> FALSE, value |-> None]
    ELSE LET matches == GetMatches(resp)
         IN  IF matches # <<>>
             THEN [raised |-> FALSE, value |-> GetId(matches[1])]
             ELSE [raised |-> FALSE, value |-> None]

----------------------------------------------------------------------------
(* File operations *)

(* "if buffer: return" in place of "if not buffer: return": nothing is ever
   appended *)
flush_buffer_to_csv_inverted(buffer, f) == f

(* flush_buffer_to_csv: append one row per buffered pair *)
flush_buffer_to_csv(buffer, f) ==
    IF buffer = <<>>
    THEN f
    ELSE [f EXCEPT !.exists = TRUE,
                   !.rows = f.rows \o [k \in 1..Len(buffer) |->
                                          <<buffer[k][1], CsvCell(buffer[k][2])>>]]

(* sorted(..., reverse=True) *)
SortedKeys_desc(S) ==
    [k \in 1..Cardinality(S) |->
        CHOOSE x \in S : Cardinality({y \in S : y > x}) = k - 1]

(* sorted(mapping.items()): the keys in increasing order, the k-th being the
   key with k - 1 smaller keys *)
SortedKeys(S) ==
    [k \in 1..Cardinality(S) |->
        CHOOSE x \in S : Cardinality({y \in S : y < x}) = k - 1]

(* open(csv_file, "a") in place of "w" *)
write_sorted_csv_append(m, f) ==
    LET keys == SortedKeys(DOMAIN m)
    IN  FileOf(f.rows \o [k \in 1..Len(keys) |-> <<keys[k], CsvCell(m[keys[k]])>>])

(* write_sorted_csv: open(csv_file, "w"), the header, the sorted rows *)
write_sorted_csv(m, f) ==
    LET keys == SortedKeys(DOMAIN m)
    IN  FileOf([k \in 1..Len(keys) |-> <<keys[k], CsvCell(m[keys[k]])>>])

(* for row in reader: mapping[row["postcode"]] = row["id"]: every postcode of
   the rows is a key, its value the id of the last row that has it *)
LoadRows(rows) ==
    [p \in {rows[k][1] : k \in DOMAIN rows} |->
        LET last == CHOOSE k \in DOMAIN rows :
                        /\ rows[k][1] = p
                        /\ \A j \in DOMAIN rows : rows[j][1] = p => j <= k
        IN  StrVal(rows[last][2])]

(* main, lines 108-120: load the existing file or create it with the header.
   A DictReader takes the first line of a file without header as the field
   names: the next row then has no "postcode" key (KeyError). *)
LoadBody(f) ==
    IF ~f.exists
    THEN [mapping |-> EmptyMapping, file |-> HeaderOnly, raised |-> FALSE]
    ELSE IF f.header
    THEN [mapping |-> LoadRows(f.rows), file |-> f, raised |-> FALSE]
    ELSE [mapping |-> EmptyMapping, file |-> f, raised |-> Len(f.rows) >= 2]

----------------------------------------------------------------------------
(* The loop of main *)

(* the test "if postcode_id" missing: whatever was returned is recorded *)
FetchBody_always(st, p) ==
    LET r == fetch_postcode_id(service[p])
    IN  [st EXCEPT !.fetched = st.fetched + 1,
                   !.mapping = Put(st.mapping, p, r.value),
                   !.write_buffer = Append(st.write_buffer, <<p, r.value>>)]

(* "mapping[postcode] = postcode_id" missing: the id is only buffered *)
FetchBody_nomap(st, p) ==
    LET r == fetch_postcode_id(service[p])
    IN  IF r.raised
        THEN [st EXCEPT !.fetched = st.fetched + 1, !.raised = TRUE]
        ELSE IF Truthy(r.value)
        THEN [st EXCEPT !.fetched = st.fetched + 1,
                        !.write_buffer = Append(st.write_buffer, <<p, r.value>>)]
        ELSE [st EXCEPT !.fetched = st.fetched + 1]

(* lines 133-139 *)
FetchBody(st, p) ==
    LET r == fetch_postcode_id(service[p])
    IN  IF r.raised
        THEN [st EXCEPT !.fetched = st.fetched + 1, !.raised = TRUE]
        ELSE IF Truthy(r.value)
        THEN [st EXCEPT !.fetched = st.fetched + 1,
                        !.mapping = Put(st.mapping, p, r.value),
                        !.write_buffer = Append(st.write_buffer, <<p, r.value>>)]
        ELSE [st EXCEPT !.fetched = st.fetched + 1]

(* "fetched % 100 == 1" in place of "fetched % 100 == 0" *)
CheckpointDue_late(n) == n % CheckpointInterval = 1

(* line 142 *)
CheckpointDue(n) == n % CheckpointInterval = 0

(* the call of flush_buffer_to_csv missing: the buffer is only emptied *)
CheckpointBody_drop(st) ==
    IF CheckpointDue(st.fetched)
    THEN [st EXCEPT !.write_buffer = <<>>]
    ELSE st

(* "write_buffer = []" missing after the flush *)
CheckpointBody_keep(st) ==
    IF CheckpointDue(st.fetched)
    THEN [st EXCEPT !.file = flush_buffer_to_csv(st.write_buffer, st.file)]
    ELSE st

(* lines 142-144 *)
CheckpointBody(st) ==
    IF CheckpointDue(st.fetched)
    THEN [st EXCEPT !.file = flush_buffer_to_csv(st.write_buffer, st.file),
                    !.write_buffer = <<>>]
    ELSE st

(* "if not mapping.get(postcode)" in place of "if postcode not in mapping" *)
AlreadyMapped_truthy(p, m) == p \in DOMAIN m /\ Truthy(m[p])

(* the test of line 132 missing: every postcode of the list is looked up *)
AlreadyMapped_never(p, m) == FALSE

(* line 132 *)
AlreadyMapped(p, m) == p \in DOMAIN m

(* lines 131-144, one iteration *)
Iteration(st, p) ==
    IF AlreadyMapped(p, st.mapping) \/ st.raised
    THEN st
    ELSE LET a == FetchBody(st, p)
         IN  IF a.raised THEN a ELSE CheckpointBody(a)

RECURSIVE RunLoop(_, _, _, _)
(* lines 131-151, iterations lo..hi of the loop *)
RunLoop(st, list, lo, hi) ==
    IF lo > hi THEN st
    ELSE IF lo = hi THEN Iteration(st, list[lo])
    ELSE LET mid == (lo + hi) \div 2
             half == RunLoop(st, list, lo, mid)
         IN  IF half.fetched >= 0 THEN RunLoop(half, list, mid + 1, hi) ELSE half

(* main run from file f to its end without interruption: the file it leaves *)
UninterruptedRun(f, list) ==
    LET l == LoadBody(f)
    IN  IF l.raised THEN l.file
        ELSE LET st == RunLoop([mapping |-> l.mapping, write_buffer |-> <<>>,
                                fetched |-> 0, file |-> l.file, raised |-> FALSE],
                               list, 1, Len(list))
             IN  IF st.raised THEN st.file
                 ELSE write_sorted_csv(st.mapping,
                                       flush_buffer_to_csv(st.write_buffer, st.file))

State == [mapping |-> mapping, write_buffer |-> write_buffer, fetched |-> fetched,
          file |-> file, raised |-> FALSE]

----------------------------------------------------------------------------
(* Inputs *)

RECURSIVE SeqsUpTo(_, _)
SeqsUpTo(S, n) ==
    IF n = 0 THEN {<<>>}
    ELSE LET shorter == SeqsUpTo(S, n - 1)
         IN  shorter \cup {Append(s, x) : s \in {t \in shorter : Len(t) = n - 1}, x \in S}

SmallLists == SeqsUpTo(SmallPostcodes, MaxLen)

SmallServices == [SmallPostcodes -> Responses]

SmallFiles ==
    { NoFile,
      EmptyFile,
      HeaderOnly,
      FileOf(<< <<1, "5">> >>),
      FileOf(<< <<2, "9">>, <<1, "7">> >>),
      FileOf(<< <<1, "5">>, <<1, "">> >>),
      FileOf(<< <<3, "4">>, <<2, "7">> >>) }

LongPostcodes == 1..LongLen

LongLists ==
    { [k \in 1..LongLen |-> k],
      [k \in 1..LongLen |-> IF k % 3 = 0 THEN 3 ELSE k],
      [k \in 1..LongLen |-> IF k % 3 = 0 THEN 3 ELSE IF k % 5 = 0 THEN 5 ELSE k] }

LongServices ==
    { [p \in LongPostcodes |-> Ok(<<Match(IntVal("7"))>>)],
      [p \in LongPostcodes |-> IF p = 3 THEN Fail
                               ELSE IF p % 2 = 0 THEN Ok(<<>>)
                               ELSE Ok(<<Match(StrVal("5")), Match(IntVal("7"))>>)] }

LongFiles ==
    { NoFile,
      FileOf(<< <<2, "9">> >>) }

Scenarios ==
    [list : SmallLists, svc : SmallServices, file : SmallFiles]
    \cup [list : LongLists, svc : LongServices, file : LongFiles]

----------------------------------------------------------------------------
(* The mapper *)

ExtractIdle ==
    /\ exHeader = {}
    /\ exRows = <<>>
    /\ exPos = 0
    /\ exPostcodes = {}
    /\ exOut = <<>>
    /\ exPc = "idle"

(* fetch_postcode_id has not returned *)
NotReturned == [t |-> "pending", s |-> ""]

RetryIdle ==
    /\ rtPc = "idle"
    /\ rtTotal = 0
    /\ rtAttempts = <<>>
    /\ rtReturn = NotReturned

NoCalls == [p \in DOMAIN service |-> 0]

Init ==
    /\ \E sc \in Scenarios :
          /\ postcodes = sc.list
          /\ service = sc.svc
          /\ file0 = sc.file
          /\ file = sc.file
    /\ pc = "start"
    /\ mapping = EmptyMapping
    /\ write_buffer = <<>>
    /\ fetched = 0
    /\ i = 0
    /\ run = 1
    /\ kills = 0
    /\ calls = [p \in DOMAIN service |-> 0]
    /\ loaded = {}
    /\ durable = {}
    /\ ckpt = FALSE
    /\ prev = "none"
    /\ prevFile = NoFile
    /\ lost = 0
    /\ ExtractIdle
    /\ RetryIdle

MappingEntries(m) == {<<p, CsvCell(m[p])>> : p \in DOMAIN m}
BufferEntries(b) == {<<b[k][1], CsvCell(b[k][2])>> : k \in DOMAIN b}

(* main, lines 108-130 *)
Load ==
    /\ pc = "start"
    /\ LET l == LoadBody(file)
       IN  /\ mapping' = l.mapping
           /\ file' = l.file
           /\ pc' = IF l.raised THEN "aborted" ELSE "loop"
           /\ loaded' = DOMAIN l.mapping
           /\ durable' = MappingEntries(l.mapping)
    /\ write_buffer' = <<>>
    /\ fetched' = 0
    /\ i' = 0
    /\ UNCHANGED <<postcodes, service, file0, run, kills, calls, ckpt, prev, prevFile, lost>>
    /\ UNCHANGED <<extractVars, retryVars>>

(* main, lines 131-132: a postcode already in the mapping is skipped *)
Skip ==
    /\ pc = "loop"
    /\ i < Len(postcodes)
    /\ AlreadyMapped(postcodes[i + 1], mapping)
    /\ i' = i + 1
    /\ UNCHANGED <<postcodes, service, file0, file, pc, mapping, write_buffer, fetched,
                   run, kills, calls, loaded, durable, ckpt, prev, prevFile, lost>>
    /\ UNCHANGED <<extractVars, retryVars>>

(* main, lines 132-139: look the postcode up *)
Fetch ==
    /\ pc = "loop"
    /\ i < Len(postcodes)
    /\ ~AlreadyMapped(postcodes[i + 1], mapping)
    /\ LET p == postcodes[i + 1]
           st == FetchBody(State, p)
       IN  /\ mapping' = st.mapping
           /\ write_buffer' = st.write_buffer
           /\ fetched' = st.fetched
           /\ pc' = IF st.raised THEN "aborted" ELSE "check"
           /\ calls' = [calls EXCEPT ![p] = @ + 1]
    /\ UNCHANGED <<postcodes, service, file0, file, i, run, kills, loaded, durable,
                   ckpt, prev, prevFile, lost>>
    /\ UNCHANGED <<extractVars, retryVars>>

(* main, lines 142-151: the checkpoint after a lookup that makes fetched a
   multiple of the interval *)
Checkpoint ==
    /\ pc = "check"
    /\ CheckpointDue(fetched)
    /\ LET st == CheckpointBody(State)
       IN  /\ file' = st.file
           /\ write_buffer' = st.write_buffer
    /\ durable' = durable \cup BufferEntries(write_buffer)
    /\ ckpt' = (ckpt \/ write_buffer # <<>>)
    /\ i' = i + 1
    /\ pc' = "loop"
    /\ UNCHANGED <<postcodes, service, file0, mapping, fetched, run, kills, calls,
                   loaded, prev, prevFile, lost>>
    /\ UNCHANGED <<extractVars, retryVars>>

(* main, line 142: no checkpoint is due *)
NoCheckpoint ==
    /\ pc = "check"
    /\ ~CheckpointDue(fetched)
    /\ LET st == CheckpointBody(State)
       IN  /\ file' = st.file
           /\ write_buffer' = st.write_buffer
    /\ i' = i + 1
    /\ pc' = "loop"
    /\ UNCHANGED <<postcodes, service, file0, mapping, fetched, run, kills, calls,
                   loaded, durable, ckpt, prev, prevFile, lost>>
    /\ UNCHANGED <<extractVars, retryVars>>

(* main, line 154: flush the remaining buffered writes *)
FinalFlush ==
    /\ pc = "loop"
    /\ i = Len(postcodes)
    /\ file' = flush_buffer_to_csv(write_buffer, file)
    /\ durable' = durable \cup BufferEntries(write_buffer)
    /\ pc' = "rewrite"
    /\ UNCHANGED <<postcodes, service, file0, mapping, write_buffer, fetched, i, run,
                   kills, calls, loaded, ckpt, prev, prevFile, lost>>
    /\ UNCHANGED <<extractVars, retryVars>>

(* main, lines 157-160: the final sorted rewrite *)
WriteSorted ==
    /\ pc = "rewrite"
    /\ file' = write_sorted_csv(mapping, file)
    /\ pc' = "done"
    /\ UNCHANGED <<postcodes, service, file0, mapping, write_buffer, fetched, i, run,
                   kills, calls, loaded, durable, ckpt, prev, prevFile, lost>>
    /\ UNCHANGED <<extractVars, retryVars>>

(* the memory of a process that is gone *)
ProcessGone ==
    /\ pc' = "dead"
    /\ mapping' = EmptyMapping
    /\ write_buffer' = <<>>
    /\ fetched' = 0
    /\ i' = 0
    /\ calls' = NoCalls
    /\ loaded' = {}
    /\ kills' = kills + 1
    /\ UNCHANGED <<postcodes, service, file0, run, durable, ckpt, prev, prevFile>>
    /\ UNCHANGED <<extractVars, retryVars>>

Unsaved(m, f) == Cardinality(DOMAIN m \ FileKeys(f))

(* the process is killed between two writes to the file *)
Kill ==
    /\ pc \in {"start", "loop", "check", "rewrite"}
    /\ kills < MaxKills
    /\ file' = file
    /\ lost' = Unsaved(mapping, file)
    /\ ProcessGone

(* the process is killed at line 118, the new file created and still empty *)
KillInHeader ==
    /\ pc = "start"
    /\ ~file.exists
    /\ kills < MaxKills
    /\ file' = EmptyFile
    /\ lost' = 0
    /\ ProcessGone

(* the process is killed inside flush_buffer_to_csv, some rows appended *)
KillInFlush ==
    /\ \/ pc = "check" /\ CheckpointDue(fetched)
       \/ pc = "loop" /\ i = Len(postcodes)
    /\ write_buffer # <<>>
    /\ kills < MaxKills
    /\ \E k \in 0..(Len(write_buffer) - 1) :
          file' = flush_buffer_to_csv(SubSeq(write_buffer, 1, k), file)
    /\ lost' = Unsaved(mapping, file')
    /\ ProcessGone

(* the process is killed inside write_sorted_csv: the file was truncated by
   open(csv_file, "w") and holds the first k lines of the new content *)
KillInRewrite ==
    /\ pc = "rewrite"
    /\ kills < MaxKills
    /\ LET new == write_sorted_csv(mapping, file)
       IN  \E k \in 0..Len(new.rows) :
              file' = IF k = 0 THEN EmptyFile
                      ELSE FileOf(SubSeq(new.rows, 1, k - 1))
    /\ lost' = Unsaved(mapping, file')
    /\ ProcessGone

(* the mapper is started again *)
Restart ==
    /\ pc \in {"dead", "done", "aborted"}
    /\ run < MaxRuns
    /\ run' = run + 1
    /\ prev' = IF pc = "done" THEN "done"
               ELSE IF pc = "aborted" THEN "aborted"
               ELSE IF ckpt THEN "killed_after_checkpoint"
               ELSE "killed"
    /\ prevFile' = file
    /\ pc' = "start"
    /\ mapping' = EmptyMapping
    /\ write_buffer' = <<>>
    /\ fetched' = 0
    /\ i' = 0
    /\ calls' = NoCalls
    /\ loaded' = {}
    /\ durable' = {}
    /\ ckpt' = FALSE
    /\ lost' = 0
    /\ UNCHANGED <<postcodes, service, file0, file, kills>>
    /\ UNCHANGED <<extractVars, retryVars>>

Next ==
    \/ Load
    \/ Skip
    \/ Fetch
    \/ Checkpoint
    \/ NoCheckpoint
    \/ FinalFlush
    \/ WriteSorted
    \/ Restart

Spec == Init /\ [][Next]_vars

CrashNext ==
    \/ Next
    \/ Kill
    \/ KillInHeader
    \/ KillInFlush
    \/ KillInRewrite

CrashSpec == Init /\ [][CrashNext]_vars

----------------------------------------------------------------------------
(* Properties of the mapper *)

Fetched == {p \in DOMAIN service : calls[p] > 0}

(* C1: a run that is killed after a checkpoint flush has completed, and is
   then restarted and runs to its end, leaves the mapping file that one
   uninterrupted run on the same list, service and starting file leaves. *)
C1_Resumable ==
    (pc = "done" /\ run = 2 /\ prev = "killed_after_checkpoint")
        => file = UninterruptedRun(file0, postcodes)

(* C2: fetch_postcode_id is never called, during a run, for a postcode that
   is a key of the mapping loaded at the start of that run. *)
C2_LoadedNeverFetched == loaded \cap Fetched = {}

C2_Witness ==
    /\ pc = "done"
    /\ \E p \in loaded : \E j, k \in DOMAIN postcodes : j < k /\ postcodes[j] = p /\ postcodes[k] = p
    /\ Fetched # {}

(* C3: whenever and wherever the process is killed, every entry that was in
   the mapping file when the run started, or that a completed flush appended,
   is still in the mapping file. *)
C3_CheckpointedSurvive == durable \subseteq FileEntries(file)

(* C4: a run to completion that follows a run to completion leaves the
   mapping file exactly as the first one left it. *)
C4_Idempotent == (pc = "done" /\ prev = "done") => file = prevFile

C4_Witness ==
    /\ pc = "done"
    /\ prev = "done"
    /\ Fetched # {}
    /\ Len(file.rows) >= 2
    /\ file # file0

(* C5, as claimed: the pending write buffer never holds more than
   CheckpointInterval - 1 entries. *)
C5_AtMostIntervalMinusOne == Len(write_buffer) <= CheckpointInterval - 1

(* C5, amended: the pending write buffer, and the number of resolved entries
   that are in the mapping and not in the file, never exceed
   CheckpointInterval; between two iterations of the loop the buffer holds at
   most CheckpointInterval - 1 entries. *)
C5_AtMostInterval ==
    /\ Len(write_buffer) <= CheckpointInterval
    /\ Unsaved(mapping, file) <= CheckpointInterval
    /\ pc = "loop" => Len(write_buffer) <= CheckpointInterval - 1

C5_Witness ==
    /\ pc = "check"
    /\ Len(write_buffer) = CheckpointInterval
    /\ Unsaved(mapping, file) = CheckpointInterval

(* C6: a lookup that ends in a transport or HTTP failure yields no id, its
   postcode is not added to the mapping, no lookup aborts the run, and the
   run comes to the final rewrite with every postcode of the list processed:
   mapped, or looked up in this run. *)
C6_FailureDoesNotAbort ==
    /\ \A p \in Fetched : service[p].status = "error" => p \notin DOMAIN mapping
    /\ ~(pc = "aborted" /\ fetched > 0)
    /\ pc \in {"rewrite", "done"} =>
          /\ i = Len(postcodes)
          /\ \A k \in DOMAIN postcodes :
                postcodes[k] \in DOMAIN mapping \/ calls[postcodes[k]] > 0

C6_Witness ==
    /\ pc = "done"
    /\ \E j, k \in DOMAIN postcodes :
          /\ j < k
          /\ service[postcodes[j]].status = "error"
          /\ calls[postcodes[j]] > 0
          /\ calls[postcodes[k]] > 0
          /\ postcodes[k] \in DOMAIN mapping

NoMatch(resp) == resp.status = "ok" /\ (~resp.has_matches \/ resp.matches = <<>>)

(* C7: a postcode that is looked up and whose response has an empty or no
   matches array is no key of the mapping, and no key of the file the run
   leaves, and the run does not abort. *)
C7_NoMatchNotMapped ==
    /\ \A p \in Fetched : NoMatch(service[p]) =>
          /\ p \notin DOMAIN mapping
          /\ pc = "done" => p \notin FileKeys(file)
    /\ ~(pc = "aborted" /\ fetched > 0)

C7_Witness ==
    /\ pc = "done"
    /\ \E p, q \in Fetched :
          /\ service[p].has_matches /\ NoMatch(service[p])
          /\ ~service[q].has_matches /\ NoMatch(service[q])
          /\ p \notin FileKeys(file)
          /\ q \notin FileKeys(file)

(* C8: the id recorded for a postcode looked up in this run is the id of the
   first element of the matches array of its response, and the file the run
   leaves holds that id as text. *)
C8_FirstMatch ==
    \A p \in Fetched : p \in DOMAIN mapping =>
        /\ service[p].status = "ok"
        /\ service[p].has_matches
        /\ service[p].matches # <<>>
        /\ service[p].matches[1].has_id
        /\ mapping[p] = service[p].matches[1].id
        /\ pc = "done" => <<p, service[p].matches[1].id.s>> \in FileEntries(file)

C8_Witness ==
    /\ pc = "done"
    /\ \E p \in Fetched :
          /\ p \in DOMAIN mapping
          /\ Len(service[p].matches) >= 2
          /\ mapping[p] # service[p].matches[2].id

(* C9: the postcode column of the file a completed run leaves is strictly
   increasing. *)
C9_Sorted ==
    pc = "done" =>
        /\ file.exists
        /\ file.header
        /\ \A k \in 1..(Len(file.rows) - 1) : file.rows[k][1] < file.rows[k + 1][1]
        /\ FileKeys(file) = DOMAIN mapping

C9_Witness ==
    /\ pc = "done"
    /\ Len(file.rows) >= 3
    /\ \E k \in 1..(Len(file0.rows) - 1) : file0.rows[k][1] > file0.rows[k + 1][1]
    /\ write_buffer # <<>>

(* C12: while a run lasts, an entry of the in-memory mapping is never changed
   and never removed: every step of the run keeps each key with its value,
   so the mapping only grows by postcodes it did not hold. *)
C12_EntriesImmutable ==
    [][pc' \notin {"start", "dead"} =>
          \A p \in DOMAIN mapping : p \in DOMAIN mapping' /\ mapping'[p] = mapping[p]]_vars

(* the run met a postcode it had loaded, one it resolved before, and ended
   with more entries than it loaded *)
C12_Witness ==
    /\ pc = "done"
    /\ \E j, k \in DOMAIN postcodes :
          /\ j < k
          /\ postcodes[j] = postcodes[k]
          /\ postcodes[j] \in DOMAIN mapping \ loaded
    /\ \E k \in DOMAIN postcodes : postcodes[k] \in loaded
    /\ DOMAIN mapping # loaded

(* the entries resolved by the first n iterations of this run that are in no
   row of the file yet, in the order they were resolved: a postcode that
   resolves does so at its first occurrence *)
ResolvedNotInFile(n) ==
    LET Pending(k) ==
            /\ postcodes[k] \in DOMAIN mapping \ loaded
            /\ postcodes[k] \notin FileKeys(file)
            /\ \A j \in 1..(k - 1) : postcodes[j] # postcodes[k]
        idx == SelectSeq([k \in 1..n |-> k], Pending)
    IN  [k \in DOMAIN idx |->
            <<postcodes[idx[k]],
              CsvCell(fetch_postcode_id(service[postcodes[idx[k]]]).value)>>]

(* C13: a skipped postcode does not count and a lookup counts whether or not
   it resolves; right after a lookup the file gets rows exactly when the count
   of lookups of this run is a positive multiple of 100, and then it gets the
   entries resolved since the previous checkpoint, in order, and the buffer
   is left empty. *)
C13_CheckpointEveryInterval ==
    [][/\ (pc = "loop" /\ pc' = "loop") => (fetched' = fetched /\ file' = file)
       /\ (pc = "loop" /\ pc' = "check") => (fetched' = fetched + 1 /\ file' = file)
       /\ (pc = "check" /\ pc' = "loop") =>
             IF fetched > 0 /\ fetched % CheckpointInterval = 0
             THEN /\ file' = [file EXCEPT !.rows = file.rows \o ResolvedNotInFile(i + 1)]
                  /\ write_buffer' = <<>>
             ELSE /\ file' = file
                  /\ write_buffer' = write_buffer]_vars

(* a checkpoint wrote rows after 100 lookups, of which some resolved nothing,
   in a run that also skipped a postcode *)
C13_Witness ==
    /\ pc = "loop"
    /\ fetched = CheckpointInterval
    /\ i > fetched
    /\ ckpt
    /\ write_buffer = <<>>
    /\ Len(file.rows) > 2
    /\ \E p \in Fetched : p \notin DOMAIN mapping

(* the mapping file as the current run found it *)
StartFile == IF run <= 1 THEN file0 ELSE prevFile

(* the postcodes this run looked up and got an id for *)
Resolved == {p \in Fetched : Truthy(fetch_postcode_id(service[p]).value)}

(* C14: when the loop is over the entries still buffered are the last rows of
   the file before the rewrite starts; after the rewrite the file is the
   header and one row per key of the in-memory mapping and nothing else, the
   mapping being the entries loaded at the start and those resolved by this
   run. *)
C14_Completion ==
    /\ pc = "rewrite" =>
          LET n == Len(file.rows) - Len(write_buffer)
          IN  /\ n >= 0
              /\ \A k \in DOMAIN write_buffer :
                    file.rows[n + k] = <<write_buffer[k][1], CsvCell(write_buffer[k][2])>>
    /\ pc = "done" =>
          /\ file.exists /\ file.header
          /\ Len(file.rows) = Cardinality(DOMAIN mapping)
          /\ FileEntries(file) = MappingEntries(mapping)
          /\ DOMAIN mapping = loaded \cup Resolved
          /\ loaded \cap Resolved = {}
          /\ \A p \in loaded : mapping[p] = LoadBody(StartFile).mapping[p]
          /\ \A p \in Resolved : mapping[p] = fetch_postcode_id(service[p]).value

(* a run that loaded entries, resolved others, had some of them still
   buffered when the loop ended, and rewrote the file *)
C14_Witness ==
    /\ pc = "done"
    /\ loaded # {}
    /\ Resolved # {}
    /\ write_buffer # <<>>
    /\ Len(file.rows) > Len(StartFile.rows)

(* no two rows of the file have the same postcode *)
NoDuplicateRow(f) == Cardinality(FileKeys(f)) = Len(f.rows)

BufferKeys(b) == {b[k][1] : k \in DOMAIN b}

(* C16: when the file the run loaded has no duplicate postcode, the file
   never holds two rows with the same postcode, and at every iteration
   boundary each key of the mapping is either in one row of the file or once
   in the buffer, never both, and the file and the buffer hold nothing else. *)
C16_MappingIsFilePlusBuffer ==
    (pc # "idle" /\ NoDuplicateRow(StartFile)) =>
        /\ NoDuplicateRow(file)
        /\ pc = "loop" =>
              /\ DOMAIN mapping = FileKeys(file) \cup BufferKeys(write_buffer)
              /\ FileKeys(file) \cap BufferKeys(write_buffer) = {}
              /\ Cardinality(BufferKeys(write_buffer)) = Len(write_buffer)

(* an iteration boundary with loaded rows in the file and resolved entries
   in the buffer *)
C16_Witness ==
    /\ pc = "loop"
    /\ NoDuplicateRow(StartFile)
    /\ loaded # {}
    /\ Len(write_buffer) >= 2
    /\ i < Len(postcodes)

(* the number of occurrences of p among the first n postcodes of the list *)
Occurrences(p, n) == Cardinality({k \in 1..n : postcodes[k] = p})

(* the postcodes of the list the loop has dealt with: at "check" the lookup
   of postcode i + 1 is over, its checkpoint test is not *)
Visited == IF pc = "check" THEN i + 1 ELSE i

(* C17: in a run, a postcode the run resolved was looked up once, whatever
   the number of its occurrences; a postcode the run did not load and for
   which no id was found was looked up at every one of its occurrences, in
   the first run and in a later one alike. *)
C17_ResolvedOnceUnresolvedAlways ==
    pc \in {"loop", "check", "rewrite", "done"} =>
        \A p \in DOMAIN service \ loaded :
            calls[p] = IF Truthy(fetch_postcode_id(service[p]).value)
                       THEN (IF Occurrences(p, Visited) > 0 THEN 1 ELSE 0)
                       ELSE Occurrences(p, Visited)

(* a later run that looked up again, at each of its occurrences, a postcode
   without id that the run before had looked up too, after a run that met a
   postcode it resolved several times *)
C17_Witness ==
    /\ pc = "done"
    /\ run = 2
    /\ prev = "done"
    /\ \E p \in DOMAIN service : p \notin DOMAIN mapping /\ calls[p] >= 2
    /\ \E p \in loaded \ FileKeys(file0) : Occurrences(p, Len(postcodes)) >= 2

(* a successful answer whose first match has no id field, or the id "" or 0 *)
FirstMatchWithoutId(resp) ==
    /\ resp.status = "ok"
    /\ resp.has_matches
    /\ resp.matches # <<>>
    /\ \/ ~resp.matches[1].has_id
       \/ resp.matches[1].id \in {StrVal(""), IntVal("0")}

(* C18: the lookup of a postcode whose answer has a first match without id
   (or with the id "" or 0) goes on to the checkpoint test like one without
   match: the mapping, the buffer and the file are as before, and the count
   of lookups is one more. *)
C18_FalsyIdCountsAsLookup ==
    [][(/\ pc = "loop"
        /\ pc' \in {"check", "aborted"}
        /\ FirstMatchWithoutId(service[postcodes[i + 1]])) =>
          /\ pc' = "check"
          /\ mapping' = mapping
          /\ write_buffer' = write_buffer
          /\ file' = file
          /\ fetched' = fetched + 1]_vars

(* such a lookup is over, as the second or later one of a run that resolved
   another postcode *)
C18_Witness ==
    /\ pc = "check"
    /\ FirstMatchWithoutId(service[postcodes[i + 1]])
    /\ postcodes[i + 1] \notin DOMAIN mapping
    /\ fetched >= 2
    /\ write_buffer # <<>>

----------------------------------------------------------------------------
(* The extractor, extract_postcodes.py.  A text is a sequence of characters,
   a character a number, 0 for a white space character; sorted() orders the
   texts lexicographically.  A field of a row is a text, or None when the
   row is shorter than the header (csv.DictReader fills it with restval). *)

Text(s) == [none |-> FALSE, text |-> s]
NoneField == [none |-> TRUE, text |-> <<>>]

RECURSIVE StripLeft(_)
StripLeft(s) == IF s # <<>> /\ Head(s) = 0 THEN StripLeft(Tail(s)) ELSE s

RECURSIVE StripRight(_)
StripRight(s) ==
    IF s # <<>> /\ s[Len(s)] = 0 THEN StripRight(SubSeq(s, 1, Len(s) - 1)) ELSE s

(* str.strip() *)
Strip(s) == StripRight(StripLeft(s))

RECURSIVE LexLess(_, _)
(* a < b on str *)
LexLess(a, b) ==
    IF b = <<>> THEN FALSE
    ELSE IF a = <<>> THEN TRUE
    ELSE IF Head(a) # Head(b) THEN Head(a) < Head(b)
    ELSE LexLess(Tail(a), Tail(b))

LexMin(S) == CHOOSE x \in S : \A y \in S \ {x} : LexLess(x, y)

RECURSIVE SortedTexts(_)
(* sorted(postcodes) *)
SortedTexts(S) ==
    IF S = {} THEN <<>>
    ELSE LET m == LexMin(S) IN <<m>> \o SortedTexts(S \ {m})

(* row.get(col, '') *)
RowGet(header, row, col) == IF col \in header THEN row[col] ELSE Text(<<>>)

(* "if postcode:" in place of "if postcode and not doterm:" *)
ExtractRow_noterm(header, set, row) ==
    LET pcds == RowGet(header, row, "pcds")
        dot == RowGet(header, row, "doterm")
    IN  IF pcds.none \/ dot.none
        THEN [postcodes |-> set, raised |-> TRUE]
        ELSE LET postcode == Strip(pcds.text)
             IN  IF postcode # <<>>
                 THEN [postcodes |-> set \cup {postcode}, raised |-> FALSE]
                 ELSE [postcodes |-> set, raised |-> FALSE]

(* lines 12-15: None has no strip() (AttributeError) *)
ExtractRow(header, set, row) ==
    LET pcds == RowGet(header, row, "pcds")
        dot == RowGet(header, row, "doterm")
    IN  IF pcds.none \/ dot.none
        THEN [postcodes |-> set, raised |-> TRUE]
        ELSE LET postcode == Strip(pcds.text)
                 doterm == Strip(dot.text)
             IN  IF postcode # <<>> /\ doterm = <<>>
                 THEN [postcodes |-> set \cup {postcode}, raised |-> FALSE]
                 ELSE [postcodes |-> set, raised |-> FALSE]

PcdsTexts == { Text(<<>>), Text(<<0>>), Text(<<1>>), Text(<<0, 1, 0>>), Text(<<2>>) }

DotermTexts == { Text(<<>>), Text(<<0>>), Text(<<3>>) }

Headers == SUBSET {"pcds", "doterm"}

(* the rows a reader yields under header h: every field a text, or the row
   cut short, its last fields None; a column that h lacks is no key of the
   row (the field is then never read) *)
RowsFor(h) ==
    [pcds : IF "pcds" \in h THEN PcdsTexts ELSE {Text(<<>>)},
     doterm : IF "doterm" \in h THEN DotermTexts ELSE {Text(<<>>)}]
    \cup [pcds : IF "pcds" \in h THEN {NoneField, Text(<<1>>)} ELSE {Text(<<>>)},
          doterm : IF "doterm" \in h THEN {NoneField} ELSE {Text(<<>>)}]
    \cup [pcds : IF "pcds" \in h THEN {NoneField} ELSE {Text(<<>>)},
          doterm : {IF "doterm" \in h THEN NoneField ELSE Text(<<>>)}]

MapperIdle ==
    /\ postcodes = <<>>
    /\ service = [p \in {} |-> Fail]
    /\ file0 = NoFile
    /\ file = NoFile
    /\ pc = "idle"
    /\ mapping = EmptyMapping
    /\ write_buffer = <<>>
    /\ fetched = 0
    /\ i = 0
    /\ run = 0
    /\ kills = 0
    /\ calls = [p \in {} |-> 0]
    /\ loaded = {}
    /\ durable = {}
    /\ ckpt = FALSE
    /\ prev = "none"
    /\ prevFile = NoFile
    /\ lost = 0

ExtractInit ==
    /\ MapperIdle
    /\ RetryIdle
    /\ exHeader \in Headers
    /\ exRows \in SeqsUpTo(RowsFor(exHeader), MaxRows)
    /\ exPos = 0
    /\ exPostcodes = {}
    /\ exOut = <<>>
    /\ exPc = "read"

(* lines 11-15: one row of the reader *)
ReadRow ==
    /\ exPc = "read"
    /\ exPos < Len(exRows)
    /\ LET r == ExtractRow(exHeader, exPostcodes, exRows[exPos + 1])
       IN  /\ exPostcodes' = r.postcodes
           /\ exPc' = IF r.raised THEN "aborted" ELSE "read"
    /\ exPos' = exPos + 1
    /\ UNCHANGED <<exHeader, exRows, exOut>>
    /\ UNCHANGED <<mapperVars, retryVars>>

(* lines 17-21: the sorted list is written once the input is consumed *)
WriteOutput ==
    /\ exPc = "read"
    /\ exPos = Len(exRows)
    /\ exOut' = SortedTexts(exPostcodes)
    /\ exPc' = "done"
    /\ UNCHANGED <<exHeader, exRows, exPos, exPostcodes>>
    /\ UNCHANGED <<mapperVars, retryVars>>

ExtractNext == ReadRow \/ WriteOutput

ExtractSpec == ExtractInit /\ [][ExtractNext]_vars

----------------------------------------------------------------------------
(* Properties of the extractor *)

(* the postcode of a row: its postcode field without surrounding white space *)
PostcodeOf(row) == Strip(RowGet(exHeader, row, "pcds").text)

OutputSorted == \A k \in 1..(Len(exOut) - 1) : LexLess(exOut[k], exOut[k + 1])

(* C10, as claimed: the extracted list is sorted, has no duplicate, and holds
   a postcode exactly when some row with that postcode has an empty
   termination field. *)
C10_EmptyTermination ==
    exPc = "done" =>
        /\ OutputSorted
        /\ Range(exOut) = {PostcodeOf(exRows[k]) : k \in
              {j \in DOMAIN exRows :
                  /\ PostcodeOf(exRows[j]) # <<>>
                  /\ RowGet(exHeader, exRows[j], "doterm").text = <<>>}}

(* C10, amended: the extracted list is sorted, has no duplicate, and holds a
   postcode exactly when some row with that postcode has a termination field
   that is empty once surrounding white space is removed. *)
C10_BlankTermination ==
    exPc = "done" =>
        /\ OutputSorted
        /\ Range(exOut) = {PostcodeOf(exRows[k]) : k \in
              {j \in DOMAIN exRows :
                  /\ PostcodeOf(exRows[j]) # <<>>
                  /\ Strip(RowGet(exHeader, exRows[j], "doterm").text) = <<>>}}

C10_Witness ==
    /\ exPc = "done"
    /\ Len(exOut) = 2
    /\ \E j, k, l \in DOMAIN exRows :
          /\ j # k
          /\ PostcodeOf(exRows[j]) = PostcodeOf(exRows[k])
          /\ exRows[j].doterm = Text(<<>>)
          /\ exRows[k].doterm = Text(<<3>>)
          /\ LexLess(PostcodeOf(exRows[l]), PostcodeOf(exRows[j]))
          /\ j < l

(* a row is missing its postcode when the field is absent from the row (the
   column is not in the header, or the row is cut short before it), empty, or
   white space only *)
MissingPostcode(row) ==
    LET pcds == RowGet(exHeader, row, "pcds")
    IN  pcds.none \/ Strip(pcds.text) = <<>>

(* C11: a row that is missing its postcode is skipped without an error: the
   reader does not abort on it, it adds nothing to the collected postcodes
   (the empty postcode is never collected), and the rows after it are read. *)
C11_MissingSkipped ==
    /\ <<>> \notin exPostcodes
    /\ (exPos > 0 /\ MissingPostcode(exRows[exPos])) => exPc # "aborted"
    /\ exPc = "done" => exPos = Len(exRows)

----------------------------------------------------------------------------
(* One request of fetch_postcode_id: session.get through the HTTPAdapter
   mounted by create_session.  The adapter hands the Retry object of lines
   24-29 to urllib3, whose urlopen asks it after every attempt whether to
   try again (Retry.is_retry for a response, Retry.increment for both a
   response and a transport error); increment takes one from total and
   raises MaxRetryError once total is below zero.  The service answers
   without redirecting. *)

(* line 25 *)
RetryTotal == 3

(* line 27 *)
StatusForcelist == {429, 500, 502, 503, 504}

(* line 28 *)
AllowedMethods == {"GET"}

(* line 52: session.get *)
RequestMethod == "GET"

(* urllib3: Retry.RETRY_AFTER_STATUS_CODES, honoured because
   respect_retry_after_header keeps its default *)
RetryAfterStatusCodes == {413, 429, 503}

ConnectError == [kind |-> "connect", status |-> 0, retry_after |-> FALSE]
ReadError == [kind |-> "read", status |-> 0, retry_after |-> FALSE]
Status(n, ra) == [kind |-> "status", status |-> n, retry_after |-> ra]

(* what one attempt can end with: no connection (refused, connect timeout),
   a failure while reading (reset, read timeout), or a response *)
Outcomes ==
    {ConnectError, ReadError}
    \cup {Status(n, FALSE) : n \in {200, 404, 413, 429, 500, 502, 503, 504}}
    \cup {Status(n, TRUE) : n \in {413, 503}}

(* status_forcelist holding every status from 400 on *)
IsRetry_anyError(method, o, total) ==
    IF o.kind = "connect" THEN TRUE
    ELSE IF o.kind = "read" THEN method \in AllowedMethods
    ELSE /\ method \in AllowedMethods
         /\ o.status >= 400

(* whether the attempt is tried again while retries are left: a connection
   error always, a read error for an allowed method, a response for an allowed
   method when its status is in status_forcelist or, with retries left, when
   it carries Retry-After and its status is one that header applies to *)
IsRetry(method, o, total) ==
    IF o.kind = "connect" THEN TRUE
    ELSE IF o.kind = "read" THEN method \in AllowedMethods
    ELSE /\ method \in AllowedMethods
         /\ \/ o.status \in StatusForcelist
            \/ total > 0 /\ o.retry_after /\ o.status \in RetryAfterStatusCodes

(* Retry.is_exhausted *)
Exhausted(total) == total < 0

LastAttempt == rtAttempts[Len(rtAttempts)]

RetryInit ==
    /\ MapperIdle
    /\ ExtractIdle
    /\ rtPc = "send"
    /\ rtTotal = RetryTotal
    /\ rtAttempts = <<>>
    /\ rtReturn = NotReturned

(* one attempt of the request *)
SendRequest ==
    /\ rtPc = "send"
    /\ \E o \in Outcomes : rtAttempts' = Append(rtAttempts, o)
    /\ rtPc' = "sent"
    /\ UNCHANGED <<rtTotal, rtReturn>>
    /\ UNCHANGED <<mapperVars, extractVars>>

(* Retry.increment after an attempt that is to be tried again, then the
   backoff sleep; MaxRetryError when no retry is left *)
RetryIncrement ==
    /\ rtPc = "sent"
    /\ IsRetry(RequestMethod, LastAttempt, rtTotal)
    /\ rtTotal' = rtTotal - 1
    /\ rtPc' = IF Exhausted(rtTotal - 1) THEN "raised" ELSE "send"
    /\ UNCHANGED <<rtAttempts, rtReturn>>
    /\ UNCHANGED <<mapperVars, extractVars>>

(* the response of an attempt that is not tried again goes to the caller *)
ReturnResponse ==
    /\ rtPc = "sent"
    /\ ~IsRetry(RequestMethod, LastAttempt, rtTotal)
    /\ rtPc' = "returned"
    /\ UNCHANGED <<rtTotal, rtAttempts, rtReturn>>
    /\ UNCHANGED <<mapperVars, extractVars>>

(* lines 53-63: raise_for_status on the response, or the exception of the
   exhausted retries, both a RequestException; else the body is read *)
Report ==
    /\ rtPc \in {"raised", "returned"}
    /\ \E body \in {r \in Responses : r.status = "ok"} :
          LET resp == IF rtPc = "raised" \/ LastAttempt.status >= 400
                      THEN Fail ELSE body
          IN  rtReturn' = fetch_postcode_id(resp).value
    /\ rtPc' = "reported"
    /\ UNCHANGED <<rtTotal, rtAttempts>>
    /\ UNCHANGED <<mapperVars, extractVars>>

RetryNext == SendRequest \/ RetryIncrement \/ ReturnResponse \/ Report

RetrySpec == RetryInit /\ [][RetryNext]_vars

----------------------------------------------------------------------------
(* Properties of the retry policy *)

(* an attempt that failed: no response, or a response with an error status *)
Failed(o) == o.kind # "status" \/ o.status >= 400

(* connection-level failure or one of the statuses 429, 500, 502, 503, 504 *)
TransientFailure(o) == o.kind \in {"connect", "read"} \/ o.status \in {429, 500, 502, 503, 504}

(* C15, as claimed: a lookup makes at most 3 attempts, every attempt that was
   tried again was a GET that ended in a connection-level failure or one of
   the statuses 429, 500, 502, 503, 504, and a lookup whose last attempt
   failed returns no id. *)
C15_AtMostThreeAttempts ==
    /\ Len(rtAttempts) <= 3
    /\ \A k \in 1..(Len(rtAttempts) - 1) :
          RequestMethod = "GET" /\ TransientFailure(rtAttempts[k])
    /\ (rtPc = "reported" /\ Failed(LastAttempt)) => rtReturn = None

(* C15, amended: a lookup makes at most 4 attempts, the first and at most 3
   retries; every attempt that was tried again was a GET that ended in a
   connection-level failure, one of the statuses 429, 500, 502, 503, 504, or
   a 413 response carrying Retry-After; a lookup whose last attempt failed
   returns no id. *)
C15_AtMostThreeRetries ==
    /\ Len(rtAttempts) <= 4
    /\ \A k \in 1..(Len(rtAttempts) - 1) :
          /\ RequestMethod = "GET"
          /\ \/ TransientFailure(rtAttempts[k])
             \/ rtAttempts[k] = Status(413, TRUE)
    /\ (rtPc = "reported" /\ Failed(LastAttempt)) => rtReturn = None

(* four attempts failed, by a connection error and by a status of the list,
   and the lookup was reported as failed *)
C15_Witness ==
    /\ rtPc = "reported"
    /\ Len(rtAttempts) = 4
    /\ \E j, k \in DOMAIN rtAttempts :
          rtAttempts[j].kind # "status" /\ rtAttempts[k].status \in StatusForcelist
    /\ Failed(LastAttempt)
    /\ rtReturn = None

====
